---- MODULE Spec2Model ----
(***************************************************************************)
(* A model of the request handlers of the video-sharing backend            *)
(* (like / subscription / tweet / video / playlist / comment / dashboard /  *)
(* user controllers)                                                       *)
(* over the document store they share.                                     *)
(*                                                                         *)
(* The controllers are independent of one another, so each family of       *)
(* handlers has its own specification over the same variables:             *)
(*   Spec         - toggleSubscription, with the store steps of            *)
(*                  concurrent requests interleaved                        *)
(*   SpecLike     - the like toggles, interleaved in the same way          *)
(*   SpecTweet    - tweet.controller (createTweet, updateTweet, ...)       *)
(*   SpecVideo    - video.controller (updateVideo, deleteVideo, ...)       *)
(*   SpecPublish  - togglePublishStatus, concurrent requests interleaved   *)
(*   SpecPlaylist - playlist handlers                                      *)
(*   SpecComment  - comment handlers                                       *)
(*   SpecRefs     - likes and comments on a video, and its deletion        *)
(*   SpecList     - the paginated listings getAllVideos, getVideoComments  *)
(*   SpecQuery    - the same listings under any page, limit and id         *)
(*   SpecStats    - dashboard.controller (getChannelStats)                 *)
(*   SpecUser     - user.controller over the user model                    *)
(*   SpecRegister - registerUser, concurrent registrations interleaved     *)
(*   SpecHandler  - asyncHandler, the wrapper of every handler             *)
(*   SpecSave     - the save of a user document through the pre-save hook  *)
(***************************************************************************)
EXTENDS Integers, Sequences, FiniteSets, TLC

(***************************************************************************)
(* Bounds of the model.                                                    *)
(***************************************************************************)
\* request slots whose store steps may interleave
MaxReq == 2
\* rows one run may insert into the like and subscription collections
MaxRows == 3

\* documents one run may insert into a tweet, playlist or comment collection
MaxDocs == 2

Users == {"u1", "u2"}
VideoIds == {"v1"}
CommentIds == {"c1"}
TweetIds == {"t1"}
Req == 1..MaxReq

\* the value of a field a document does not have
Absent == "-"

(***************************************************************************)
(* Identifiers as they arrive in req.params: a string.  A 24 digit hex     *)
(* string is a valid ObjectId whatever the case of its digits, and both    *)
(* spellings cast to the same ObjectId; ObjectId.toString() always gives   *)
(* the lower case spelling.                                                *)
(***************************************************************************)
Wire(x, h) == [oid |-> x, hex |-> h]
WireIds(S) == {Wire(x, h) : x \in S, h \in {"lower", "upper"}}
Malformed == Wire("", "bad")
\* documents of the other collections get the _ids 1, 2, ...
DocIds == 1..MaxDocs
MalformedDoc == Wire(0, "bad")

isValidObjectId(w) == w.hex \in {"lower", "upper"}
\* mongoose casting a string to an ObjectId (query filters, create)
ObjectId(w) == w.oid
\* ObjectId.prototype.toString / String.prototype.toString
toString(oid) == Wire(oid, "lower")

VARIABLES
    likes,      \* the Like collection: a set of rows
    subs,       \* the Subscription collection: a set of rows
    nextId,     \* the _id the next inserted row gets
    reqs,       \* the toggle requests in flight, per slot
    resp,       \* the response sent last
    run,        \* the last toggles that ran alone, start to end (at most two)
    tweets,     \* the Tweet collection
    videos,     \* the Video collection
    playlists,  \* the Playlist collection
    comments,   \* the Comment collection
    before,     \* the collection a handler works on, as its request found it
    listed,     \* the parameters and the items of the list response sent last
    users,      \* the User collection
    app         \* a route of the application: its handler, what asyncHandler
                \* made of it, and how its request ended

toggleVars == <<likes, subs, nextId, reqs, run>>
docVars == <<tweets, videos, playlists, comments>>
vars == <<toggleVars, resp, docVars, before, listed, users, app>>

\* res.status(code).json(new ApiResponse(code, ...)), or the ApiError thrown
\* res.status(status).json(new ApiResponse(statusCode, data, message)): the
\* handlers pass the same number twice, but for those built with Enveloped
Response2(op, user, w, arg, status) ==
    [op |-> op, user |-> user, target |-> w, arg |-> arg, status |-> status,
     envelope |-> status]
Enveloped(response, statusCode) == [response EXCEPT !.envelope = statusCode]
Response(op, user, w, status) == Response2(op, user, w, Absent, status)
NoResponse == Response("none", "", Malformed, 0)

\* the data of a toggle's response is a document, held as the set of that one
\* row; the object {} holds none
EmptyObject == {}

\* no route is being looked at
NoHandler == [name |-> "none", kind |-> "none", status |-> 0]
NotWrapped == [type |-> "none", of |-> "none"]
NoRoute == [handler |-> NoHandler, wrapped |-> NotWrapped, ended |-> "none"]

\* a JavaScript number: an integer or NaN
Number(n) == [nan |-> FALSE, num |-> n]
NaN == [nan |-> TRUE, num |-> 0]

\* the $skip and $limit stages of a pipeline handed to the store, or none
NoStages == [sent |-> FALSE, skip |-> NaN, limit |-> NaN]

\* the data of a list response: the request's parameters, the stages its
\* query had and the items sent
Listing(params, out) ==
    [params |-> params, stages |-> out.stages, items |-> out.items]
Unlisted(status) == [status |-> status, items |-> <<>>, stages |-> NoStages]
NoList == Listing([op |-> "none"], Unlisted(0))

(***************************************************************************)
(* The Like and Subscription collections.                                  *)
(***************************************************************************)
\* the row if a handler wrote its id under each of the target fields
LikeRowEveryTarget(id, user, field, oid) ==
    [_id |-> id, likedBy |-> user, video |-> oid, comment |-> oid,
     tweet |-> oid]

LikeRow(id, user, field, oid) ==
    [_id |-> id, likedBy |-> user,
     video   |-> IF field = "video" THEN oid ELSE Absent,
     comment |-> IF field = "comment" THEN oid ELSE Absent,
     tweet   |-> IF field = "tweet" THEN oid ELSE Absent]

\* Like.findOne({ <field>: id, likedBy: userId }): the rows the filter matches
LikeMatches(rows, field, oid, user) ==
    {l \in rows : l[field] = oid /\ l.likedBy = user}

\* Subscription.findOne({ subscriber, channel }): the rows the filter matches
SubMatches(rows, subscriber, channel) ==
    {s \in rows : s.subscriber = subscriber /\ s.channel = channel}

\* The Like schema is not among the sources; the specification (4.2) gives the
\* collection a unique index on (likedBy, target).
LikeUniqueIndex(rows, row) ==
    \A l \in rows : ~(l.likedBy = row.likedBy /\ l.video = row.video
                      /\ l.comment = row.comment /\ l.tweet = row.tweet)

\* subscriptionSchema declares two plain reference fields and no index:
\* Subscription.create accepts any row.
SubscriptionIndex(rows, row) == TRUE

(***************************************************************************)
(* Toggle requests.  A handler runs up to its first await in one step      *)
(* (validation), then its findOne and its delete or create are store       *)
(* steps of their own, between which other requests' steps may fall.       *)
(***************************************************************************)
Idle == [pc |-> "idle", op |-> "none", user |-> "", target |-> Malformed,
         existing |-> 0, solo |-> FALSE]

Busy(r) == reqs[r].pc \in {"findOne", "write"}
OthersBusy(r) == \E q \in Req \ {r} : Busy(q)

\* A request that starts while another is in flight does not run alone, and
\* neither does the other.
Started(r, op, user, w) ==
    [q \in Req |->
        IF q = r
        THEN [pc |-> "findOne", op |-> op, user |-> user, target |-> w,
              existing |-> 0, solo |-> ~OthersBusy(r)]
        ELSE IF Busy(q) THEN [reqs[q] EXCEPT !.solo = FALSE]
        ELSE reqs[q]]

\* The run of toggles that ran alone, one after the other, when request q ends
\* having taken the store from `from` to `to`.
Ended(q, from, to) ==
    IF q.solo
    THEN LET e == [op |-> q.op, user |-> q.user, oid |-> ObjectId(q.target),
                   pre |-> from, post |-> to]
         IN  IF Len(run) = 2 THEN <<run[2], e>> ELSE Append(run, e)
    ELSE <<>>

\* a slot is free, and every request in flight can still insert its row
CanStart(r) ==
    /\ ~Busy(r)
    /\ nextId + Cardinality({q \in Req : Busy(q)}) <= MaxRows

\* The part of a toggle handler that runs before its first await: the
\* identifier is validated (status 0: it passed), and the findOne is issued.
StartToggle(r, op, user, w, status) ==
    /\ CanStart(r)
    /\ IF status = 0
       THEN /\ reqs' = Started(r, op, user, w)
            /\ UNCHANGED <<resp, run>>
       ELSE /\ resp' = Response(op, user, w, status)
            /\ run' = <<>>
            /\ reqs' = [q \in Req |-> IF Busy(q)
                                       THEN [reqs[q] EXCEPT !.solo = FALSE]
                                       ELSE reqs[q]]
    /\ UNCHANGED <<likes, subs, nextId, docVars, before, listed, users, app>>

toggleVideoLike(r, user, w) ==
    StartToggle(r, "video", user, w, IF ~isValidObjectId(w) THEN 400 ELSE 0)

toggleCommentLike(r, user, w) ==
    StartToggle(r, "comment", user, w, IF ~isValidObjectId(w) THEN 400 ELSE 0)

toggleTweetLike(r, user, w) ==
    StartToggle(r, "tweet", user, w, IF ~isValidObjectId(w) THEN 400 ELSE 0)

\* if (subscriberId.toString() === channelId.toString()): two strings compared
SelfSubscription(user, w) == toString(user) = w

toggleSubscription(r, user, w) ==
    StartToggle(r, "channel", user, w,
                IF ~isValidObjectId(w) THEN 400
                ELSE IF SelfSubscription(user, w) THEN 400
                ELSE 0)

\* const existingLike = await Like.findOne({ <field>: id, likedBy: userId })
LikeFindOne(r) ==
    LET q == reqs[r]
        found == LikeMatches(likes, q.op, ObjectId(q.target), q.user)
    IN  /\ q.pc = "findOne"
        /\ q.op \in {"video", "comment", "tweet"}
        /\ \E id \in IF found = {} THEN {0} ELSE {l._id : l \in found} :
              reqs' = [reqs EXCEPT ![r].pc = "write", ![r].existing = id]
        /\ UNCHANGED <<likes, subs, nextId, run, resp, docVars, before, listed, users, app>>

\* Like.findByIdAndDelete(existingLike._id), or Like.create({...})
LikeWrite(r) ==
    LET q == reqs[r]
        row == LikeRow(nextId, q.user, q.op, ObjectId(q.target))
    IN  /\ q.pc = "write"
        /\ q.op \in {"video", "comment", "tweet"}
        /\ IF q.existing # 0
           THEN \* new ApiResponse(200, existingLike, "... unliked successfully")
                /\ likes' = {l \in likes : l._id # q.existing}
                /\ nextId' = nextId
                /\ resp' = Response2(q.op, q.user, q.target,
                                     {LikeRow(q.existing, q.user, q.op,
                                              ObjectId(q.target))}, 200)
           ELSE IF LikeUniqueIndex(likes, row)
           THEN \* new ApiResponse(201, likeVideo, "... liked successfully")
                /\ likes' = likes \cup {row}
                /\ nextId' = nextId + 1
                /\ resp' = Response2(q.op, q.user, q.target, {row}, 201)
           ELSE \* duplicate key: create rejects, and so does the handler
                /\ UNCHANGED <<likes, nextId>>
                /\ resp' = Response(q.op, q.user, q.target, 500)
        /\ reqs' = [reqs EXCEPT ![r] = Idle]
        /\ run' = Ended(q, <<likes, subs>>, <<likes', subs>>)
        /\ subs' = subs
        /\ UNCHANGED <<docVars, before, listed, users, app>>

\* const existingSubscription = await Subscription.findOne({subscriber, channel})
SubscriptionFindOne(r) ==
    LET q == reqs[r]
        found == SubMatches(subs, q.user, ObjectId(q.target))
    IN  /\ q.pc = "findOne"
        /\ q.op = "channel"
        /\ \E id \in IF found = {} THEN {0} ELSE {s._id : s \in found} :
              reqs' = [reqs EXCEPT ![r].pc = "write", ![r].existing = id]
        /\ UNCHANGED <<likes, subs, nextId, run, resp, docVars, before, listed, users, app>>

\* Subscription.findByIdAndDelete(existingSubscription._id), or
\* Subscription.create({ subscriber, channel })
SubscriptionWrite(r) ==
    LET q == reqs[r]
        row == [_id |-> nextId, subscriber |-> q.user, channel |-> ObjectId(q.target)]
    IN  /\ q.pc = "write"
        /\ q.op = "channel"
        /\ IF q.existing # 0
           THEN \* new ApiResponse(200, {}, "Unsubscribed successfully")
                /\ subs' = {s \in subs : s._id # q.existing}
                /\ nextId' = nextId
                /\ resp' = Response2(q.op, q.user, q.target, EmptyObject, 200)
           ELSE IF SubscriptionIndex(subs, row)
           THEN \* new ApiResponse(201, {}, "Subscribed successfully")
                /\ subs' = subs \cup {row}
                /\ nextId' = nextId + 1
                /\ resp' = Response2(q.op, q.user, q.target, EmptyObject, 201)
           ELSE /\ UNCHANGED <<subs, nextId>>
                /\ resp' = Response(q.op, q.user, q.target, 500)
        /\ reqs' = [reqs EXCEPT ![r] = Idle]
        /\ run' = Ended(q, <<likes, subs>>, <<likes, subs'>>)
        /\ likes' = likes
        /\ UNCHANGED <<docVars, before, listed, users, app>>

\* no request in flight and none answered yet
InitRequests ==
    /\ likes = {}
    /\ subs = {}
    /\ reqs = [r \in Req |-> Idle]
    /\ run = <<>>
    /\ resp = NoResponse

InitToggle ==
    /\ InitRequests
    /\ nextId = 1

InitDocs ==
    /\ tweets = {}
    /\ videos = {}
    /\ playlists = {}
    /\ comments = {}
    /\ before = {}
    /\ listed = NoList
    /\ app = NoRoute
    /\ users = {}

Init == InitToggle /\ InitDocs

\* toggleSubscription requests, their store steps interleaved
Next ==
    \/ \E r \in Req, u \in Users, w \in WireIds(Users) \cup {Malformed} :
            toggleSubscription(r, u, w)
    \/ \E r \in Req : SubscriptionFindOne(r)
    \/ \E r \in Req : SubscriptionWrite(r)

Spec == Init /\ [][Next]_vars

\* like toggle requests, their store steps interleaved
NextLike ==
    \/ \E r \in Req, u \in Users, w \in WireIds(VideoIds) \cup {Malformed} :
            toggleVideoLike(r, u, w)
    \/ \E r \in Req, u \in Users, w \in WireIds(CommentIds) \cup {Malformed} :
            toggleCommentLike(r, u, w)
    \/ \E r \in Req, u \in Users, w \in WireIds(TweetIds) \cup {Malformed} :
            toggleTweetLike(r, u, w)
    \/ \E r \in Req : LikeFindOne(r)
    \/ \E r \in Req : LikeWrite(r)

SpecLike == Init /\ [][NextLike]_vars

(***************************************************************************)
(* tweet.controller: each handler as one step.                             *)
(***************************************************************************)
Contents == {"", "a", "b"}

\* Model.findById(id): the document, as a set of at most one row
findById(rows, oid) == {d \in rows : d._id = oid}

\* what a handler answers, and the collection it leaves
Outcome(status, rows) == [status |-> status, rows |-> rows]

createTweetOutcome(user, content) ==
    IF content = "" THEN Outcome(400, tweets)
    ELSE Outcome(201, tweets \cup {[_id |-> nextId, owner |-> user,
                                    content |-> content]})

createTweet(user, content) ==
    LET out == createTweetOutcome(user, content)
    IN  /\ nextId <= MaxDocs
        /\ tweets' = out.rows
        /\ nextId' = IF out.status = 201 THEN nextId + 1 ELSE nextId
        /\ resp' = Response("createTweet", user, MalformedDoc, out.status)
        /\ before' = tweets
        /\ UNCHANGED <<likes, subs, reqs, run, videos, playlists, comments, listed, users, app>>

\* updateTweet without its ownership check
updateTweetAnyCaller(user, w, content) ==
    IF ~isValidObjectId(w) THEN Outcome(400, tweets)
    ELSE LET tweet == findById(tweets, ObjectId(w))
         IN  IF tweet = {} THEN Outcome(404, tweets)
             ELSE Outcome(200, {IF t \in tweet
                                THEN [t EXCEPT !.content = content]
                                ELSE t : t \in tweets})

updateTweetOutcome(user, w, content) ==
    IF ~isValidObjectId(w) THEN Outcome(400, tweets)
    ELSE LET tweet == findById(tweets, ObjectId(w))
         IN  IF tweet = {} THEN Outcome(404, tweets)
             ELSE IF \E t \in tweet : toString(t.owner) # toString(user)
             THEN Outcome(403, tweets)
             ELSE Outcome(200, {IF t \in tweet
                                THEN [t EXCEPT !.content = content]
                                ELSE t : t \in tweets})

updateTweet(user, w, content) ==
    LET out == updateTweetOutcome(user, w, content)
    IN  /\ tweets' = out.rows
        /\ resp' = Response("updateTweet", user, w, out.status)
        /\ before' = tweets
        /\ UNCHANGED <<toggleVars, videos, playlists, comments, listed, users, app>>

deleteTweetOutcome(user, w) ==
    IF ~isValidObjectId(w) THEN Outcome(400, tweets)
    ELSE LET tweet == findById(tweets, ObjectId(w))
         IN  IF tweet = {} THEN Outcome(404, tweets)
             ELSE IF \E t \in tweet : toString(t.owner) # toString(user)
             THEN Outcome(403, tweets)
             ELSE Outcome(200, tweets \ tweet)

deleteTweet(user, w) ==
    LET out == deleteTweetOutcome(user, w)
    IN  /\ tweets' = out.rows
        /\ resp' = Response("deleteTweet", user, w, out.status)
        /\ before' = tweets
        /\ UNCHANGED <<toggleVars, videos, playlists, comments, listed, users, app>>

NextTweet ==
    \/ \E u \in Users, c \in Contents : createTweet(u, c)
    \/ \E u \in Users, w \in WireIds(DocIds) \cup {MalformedDoc}, c \in Contents :
            updateTweet(u, w, c)
    \/ \E u \in Users, w \in WireIds(DocIds) \cup {MalformedDoc} :
            deleteTweet(u, w)

SpecTweet == Init /\ [][NextTweet]_vars

(***************************************************************************)
(* video.controller: updateVideo, deleteVideo, togglePublishStatus, each   *)
(* as one step.  The Video collection is as the run finds it.              *)
(***************************************************************************)
Titles == {"a", "b"}
\* req.file of updateVideo: none, one without a path, one with a path
Files == {"none", "nopath", "path"}

VideoDoc(id, owner) ==
    [_id |-> id, owner |-> owner, title |-> "a", description |-> "a",
     thumbnail |-> "a", isPublished |-> TRUE]

\* the Video collections a run may start from: each _id absent or owned by
\* some user
VideoStores ==
    {{VideoDoc(id, f[id]) : id \in {i \in DocIds : f[i] # Absent}} :
        f \in [DocIds -> Users \cup {Absent}]}

\* uploadOnCloudinary is called but not imported (the import is
\* uploadonCloudinary): the call throws a ReferenceError.
updateVideoOutcome(user, w, title, description, file) ==
    IF ~isValidObjectId(w) THEN Outcome(400, videos)
    ELSE IF file = "nopath" THEN Outcome(400, videos)
    ELSE IF file = "path" THEN Outcome(500, videos)
    ELSE LET video == findById(videos, ObjectId(w))
         IN  IF video = {} THEN Outcome(404, videos)
             ELSE Outcome(200, {IF v \in video
                                THEN [v EXCEPT !.title = title,
                                               !.description = description]
                                ELSE v : v \in videos})

updateVideo(user, w, title, description, file) ==
    LET out == updateVideoOutcome(user, w, title, description, file)
    IN  /\ videos' = out.rows
        /\ resp' = Response("updateVideo", user, w, out.status)
        /\ before' = videos
        /\ UNCHANGED <<toggleVars, tweets, playlists, comments, listed, users, app>>

deleteVideoOutcome(user, w) ==
    IF ~isValidObjectId(w) THEN Outcome(400, videos)
    ELSE LET video == findById(videos, ObjectId(w))
         IN  IF video = {} THEN Outcome(404, videos)
             ELSE Outcome(200, videos \ video)

deleteVideo(user, w) ==
    LET out == deleteVideoOutcome(user, w)
    IN  /\ videos' = out.rows
        /\ resp' = Response("deleteVideo", user, w, out.status)
        /\ before' = videos
        /\ UNCHANGED <<toggleVars, tweets, playlists, comments, listed, users, app>>

togglePublishStatusOutcome(user, w) ==
    IF ~isValidObjectId(w) THEN Outcome(400, videos)
    ELSE LET video == findById(videos, ObjectId(w))
         IN  IF video = {} THEN Outcome(404, videos)
             ELSE Outcome(200, {IF v \in video
                                THEN [v EXCEPT !.isPublished = ~v.isPublished]
                                ELSE v : v \in videos})

togglePublishStatus(user, w) ==
    LET out == togglePublishStatusOutcome(user, w)
    IN  /\ videos' = out.rows
        /\ resp' = Response("togglePublishStatus", user, w, out.status)
        /\ before' = videos
        /\ UNCHANGED <<toggleVars, tweets, playlists, comments, listed, users, app>>

\* req.files of publishAVideo: what each upload field holds.  With no req.files
\* at all both reads give undefined; with req.files but without the field,
\* req.files?.videoFile[0] indexes undefined and throws a TypeError
Uploads == {"nofiles", "nofield", "path"}
\* what getVideoDuration resolves to, or its rejection
Durations == {"rejects", "d1"}

\* the identifier uploadOnCloudinary is bound nowhere in the module (the import
\* is uploadonCloudinary): evaluating the call throws a ReferenceError
uploadOnCloudinary(localPath) == "ReferenceError"

publishAVideoOutcome(user, title, description, videoFile, thumbnail, duration) ==
    IF title \in {Absent, ""} THEN Outcome(400, videos)
    ELSE IF description \in {Absent, ""} THEN Outcome(400, videos)
    ELSE IF videoFile = "nofield" THEN Outcome(500, videos)
    ELSE IF videoFile = "nofiles" THEN Outcome(400, videos)
    ELSE IF thumbnail = "nofield" THEN Outcome(500, videos)
    ELSE IF thumbnail = "nofiles" THEN Outcome(400, videos)
    \* inside the try block every throw is rethrown as ApiError(500)
    ELSE IF duration = "rejects" THEN Outcome(500, videos)
    ELSE IF uploadOnCloudinary(videoFile) = "ReferenceError"
    THEN Outcome(500, videos)
    ELSE IF uploadOnCloudinary(thumbnail) = "ReferenceError"
    THEN Outcome(500, videos)
    ELSE Outcome(201, videos \cup
            {[_id |-> nextId, owner |-> user, title |-> title,
              description |-> description, thumbnail |-> thumbnail,
              isPublished |-> TRUE, videoFile |-> videoFile,
              duration |-> duration]})

publishAVideo(user, title, description, videoFile, thumbnail, duration) ==
    LET out == publishAVideoOutcome(user, title, description, videoFile,
                                    thumbnail, duration)
    IN  /\ videos' = out.rows
        /\ resp' = Response2("publishAVideo", user, Malformed,
                             [title |-> title, description |-> description,
                              videoFile |-> videoFile, thumbnail |-> thumbnail,
                              duration |-> duration], out.status)
        /\ before' = videos
        /\ UNCHANGED <<toggleVars, tweets, playlists, comments, listed, users, app>>

\* the requests to publishAVideo: one without a title, one without a
\* description, and complete ones with every state of the two upload fields
\* (req.files is there for both fields or for neither)
PublishRequests ==
    {[title |-> Absent, description |-> "a", videoFile |-> "path",
      thumbnail |-> "path", duration |-> "d1"],
     [title |-> "a", description |-> Absent, videoFile |-> "path",
      thumbnail |-> "path", duration |-> "d1"]}
    \cup {r \in [title : {"a"}, description : {"a"}, videoFile : Uploads,
                 thumbnail : Uploads, duration : Durations] :
            /\ (r.videoFile = "nofiles") <=> (r.thumbnail = "nofiles")
            /\ r.duration = "rejects" => r.videoFile = "path" /\ r.thumbnail = "path"}

InitVideo ==
    /\ InitRequests
    /\ nextId = MaxDocs + 1
    /\ tweets = {} /\ playlists = {} /\ comments = {}
    /\ videos \in VideoStores
    /\ before = videos
    /\ listed = NoList
    /\ app = NoRoute
    /\ users = {}

NextVideo ==
    \/ \E u \in Users, w \in WireIds(DocIds) \cup {MalformedDoc},
          t \in Titles, d \in Titles, f \in Files :
            updateVideo(u, w, t, d, f)
    \/ \E u \in Users, w \in WireIds(DocIds) \cup {MalformedDoc} :
            deleteVideo(u, w)
    \/ \E u \in Users, w \in WireIds(DocIds) \cup {MalformedDoc} :
            togglePublishStatus(u, w)
    \/ \E u \in Users, r \in PublishRequests :
            publishAVideo(u, r.title, r.description, r.videoFile, r.thumbnail,
                          r.duration)

SpecVideo == InitVideo /\ [][NextVideo]_vars

(***************************************************************************)
(* togglePublishStatus with its two awaits as separate steps, so that the  *)
(* reads and the saves of concurrent requests interleave.                  *)
(***************************************************************************)
\* toggles one run may carry through
MaxToggles == 2

NotToggling == [pc |-> "idle", user |-> "", target |-> MalformedDoc,
                isPublished |-> FALSE]

\* up to the first await: the identifier is validated and the read is issued
togglePublishStatusStart(r, user, w) ==
    /\ reqs[r].pc = "idle"
    /\ Len(run) + Cardinality({q \in Req : reqs[q].pc # "idle"}) < MaxToggles
    /\ IF ~isValidObjectId(w)
       THEN /\ resp' = Response("togglePublishStatus", user, w, 400)
            /\ UNCHANGED reqs
       ELSE /\ reqs' = [reqs EXCEPT ![r] = [pc |-> "findById", user |-> user,
                                            target |-> w,
                                            isPublished |-> FALSE]]
            /\ UNCHANGED resp
    /\ UNCHANGED <<likes, subs, nextId, run, docVars, before, listed, users, app>>

\* const video = await Video.findById(videoId);
\* video.isPublished = !video.isPublished  (on the document in memory)
togglePublishStatusFindById(r) ==
    LET q == reqs[r]
        video == findById(videos, ObjectId(q.target))
    IN  /\ q.pc = "findById"
        /\ IF video = {}
           THEN /\ resp' = Response("togglePublishStatus", q.user, q.target, 404)
                /\ reqs' = [reqs EXCEPT ![r] = NotToggling]
           ELSE /\ \E v \in video :
                    reqs' = [reqs EXCEPT ![r] = [q EXCEPT !.pc = "save",
                                      !.isPublished = ~v.isPublished]]
                /\ UNCHANGED resp
        /\ UNCHANGED <<likes, subs, nextId, run, docVars, before, listed, users,
                       app>>

\* await video.save(): the changed path is written to the row of that _id;
\* the save rejects when the row is gone
togglePublishStatusSave(r) ==
    LET q == reqs[r]
        video == findById(videos, ObjectId(q.target))
    IN  /\ q.pc = "save"
        /\ IF video = {}
           THEN /\ resp' = Response("togglePublishStatus", q.user, q.target, 500)
                /\ UNCHANGED <<videos, run>>
           ELSE /\ videos' = {IF v \in video
                              THEN [v EXCEPT !.isPublished = q.isPublished]
                              ELSE v : v \in videos}
                /\ resp' = Response("togglePublishStatus", q.user, q.target, 200)
                /\ run' = Append(run, ObjectId(q.target))
        /\ reqs' = [reqs EXCEPT ![r] = NotToggling]
        /\ UNCHANGED <<likes, subs, nextId, tweets, playlists, comments, before,
                       listed, users, app>>

InitPublish ==
    /\ likes = {} /\ subs = {}
    /\ run = <<>>
    /\ resp = NoResponse
    /\ reqs = [r \in Req |-> NotToggling]
    /\ nextId = MaxDocs + 1
    /\ tweets = {} /\ playlists = {} /\ comments = {}
    /\ \E store \in VideoStores, unpublished \in SUBSET DocIds :
        videos = {[v EXCEPT !.isPublished = v._id \notin unpublished] :
                    v \in store}
    /\ before = videos
    /\ listed = NoList
    /\ app = NoRoute
    /\ users = {}

NextPublish ==
    \/ \E r \in Req, u \in Users, w \in WireIds(DocIds) \cup {MalformedDoc} :
          togglePublishStatusStart(r, u, w)
    \/ \E r \in Req : togglePublishStatusFindById(r)
    \/ \E r \in Req : togglePublishStatusSave(r)

SpecPublish == InitPublish /\ [][NextPublish]_vars

(***************************************************************************)
(* The playlist handlers, each as one step.                                *)
(***************************************************************************)
Names == {"", "a", "b"}
Descriptions == {"", "a"}
PlaylistVideoIds == {"v1", "v2"}

Range(seq) == {seq[i] : i \in 1..Len(seq)}
\* the arrays that hold each element of S once
Arrays(S) == {f \in [1..Cardinality(S) -> S] : Range(f) = S}

\* { $setUnion: ["$videos", [videoId]] }: the array of the distinct elements;
\* the order of its elements is unspecified
setUnion(array, oid) == Arrays(Range(array) \cup {oid})

\* { $pull: { videos: videoId } }: the array without the elements equal to it
RECURSIVE pull(_, _)
pull(array, oid) ==
    IF array = <<>> THEN <<>>
    ELSE IF Head(array) = oid THEN pull(Tail(array), oid)
    ELSE <<Head(array)>> \o pull(Tail(array), oid)

createPlaylistOutcome(user, name, description) ==
    IF name = "" \/ description = "" THEN Outcome(400, playlists)
    ELSE Outcome(201, playlists \cup {[_id |-> nextId, owner |-> user,
                                       name |-> name,
                                       description |-> description,
                                       videos |-> <<>>]})

createPlaylist(user, name, description) ==
    LET out == createPlaylistOutcome(user, name, description)
    IN  /\ nextId <= MaxDocs
        /\ playlists' = out.rows
        /\ nextId' = IF out.status = 201 THEN nextId + 1 ELSE nextId
        /\ resp' = Response("createPlaylist", user, MalformedDoc, out.status)
        /\ before' = playlists
        /\ UNCHANGED <<likes, subs, reqs, run, tweets, videos, comments, listed, users, app>>

\* Playlist.aggregate([$match, $addFields, $merge]) resolves to an empty
\* array, which is truthy: the 404 branch is never taken.
addVideoToPlaylistOutcomes(user, pw, vw) ==
    IF ~isValidObjectId(pw) \/ ~isValidObjectId(vw)
    THEN {Outcome(400, playlists)}
    ELSE LET playlist == findById(playlists, ObjectId(pw))
         IN  IF playlist = {} THEN {Outcome(200, playlists)}
             ELSE {Outcome(200, {IF p \in playlist
                                 THEN [p EXCEPT !.videos = merged]
                                 ELSE p : p \in playlists}) :
                     merged \in UNION {setUnion(p.videos, ObjectId(vw)) :
                                         p \in playlist}}

addVideoToPlaylist(user, pw, vw) ==
    \E out \in addVideoToPlaylistOutcomes(user, pw, vw) :
        /\ playlists' = out.rows
        /\ resp' = Response2("addVideoToPlaylist", user, pw, vw, out.status)
        /\ before' = playlists
        /\ UNCHANGED <<toggleVars, tweets, videos, comments, listed, users, app>>

removeVideoFromPlaylistOutcome(user, pw, vw) ==
    IF ~isValidObjectId(pw) \/ ~isValidObjectId(vw)
    THEN Outcome(400, playlists)
    ELSE LET playlist == findById(playlists, ObjectId(pw))
         IN  IF playlist = {} THEN Outcome(404, playlists)
             ELSE Outcome(200, {IF p \in playlist
                                THEN [p EXCEPT !.videos =
                                          pull(p.videos, ObjectId(vw))]
                                ELSE p : p \in playlists})

removeVideoFromPlaylist(user, pw, vw) ==
    LET out == removeVideoFromPlaylistOutcome(user, pw, vw)
    IN  /\ playlists' = out.rows
        /\ resp' = Response2("removeVideoFromPlaylist", user, pw, vw, out.status)
        /\ before' = playlists
        /\ UNCHANGED <<toggleVars, tweets, videos, comments, listed, users, app>>

deletePlaylistOutcome(user, pw) ==
    IF ~isValidObjectId(pw) THEN Outcome(400, playlists)
    ELSE LET playlist == findById(playlists, ObjectId(pw))
         IN  IF playlist = {} THEN Outcome(404, playlists)
             ELSE Outcome(200, playlists \ playlist)

deletePlaylist(user, pw) ==
    LET out == deletePlaylistOutcome(user, pw)
    IN  /\ playlists' = out.rows
        /\ resp' = Response("deletePlaylist", user, pw, out.status)
        /\ before' = playlists
        /\ UNCHANGED <<toggleVars, tweets, videos, comments, listed, users, app>>

updatePlaylistOutcome(user, pw, name, description) ==
    IF ~isValidObjectId(pw) THEN Outcome(400, playlists)
    ELSE IF name = "" \/ description = "" THEN Outcome(400, playlists)
    ELSE LET playlist == findById(playlists, ObjectId(pw))
         IN  IF playlist = {} THEN Outcome(404, playlists)
             ELSE Outcome(200, {IF p \in playlist
                                THEN [p EXCEPT !.name = name,
                                               !.description = description]
                                ELSE p : p \in playlists})

updatePlaylist(user, pw, name, description) ==
    LET out == updatePlaylistOutcome(user, pw, name, description)
    IN  /\ playlists' = out.rows
        /\ resp' = Response("updatePlaylist", user, pw, out.status)
        /\ before' = playlists
        /\ UNCHANGED <<toggleVars, tweets, videos, comments, listed, users, app>>

\* the ids the playlist requests carry: the stored form of each id, and a
\* malformed one
PlaylistParams == {toString(d) : d \in DocIds} \cup {MalformedDoc}
VideoParams == {toString(v) : v \in PlaylistVideoIds} \cup {Malformed}

NextPlaylist ==
    \/ \E u \in Users, n \in Names, d \in Descriptions : createPlaylist(u, n, d)
    \/ \E u \in Users, pw \in PlaylistParams, vw \in VideoParams :
            addVideoToPlaylist(u, pw, vw)
    \/ \E u \in Users, pw \in PlaylistParams, vw \in VideoParams :
            removeVideoFromPlaylist(u, pw, vw)
    \/ \E u \in Users, pw \in PlaylistParams : deletePlaylist(u, pw)
    \/ \E u \in Users, pw \in PlaylistParams, n \in Names, d \in Descriptions :
            updatePlaylist(u, pw, n, d)

SpecPlaylist == Init /\ [][NextPlaylist]_vars

(***************************************************************************)
(* The comment handlers, each as one step.  A caller of Absent is a        *)
(* request without req.user.                                               *)
(***************************************************************************)
MaxTime == 2
Times == 1..MaxTime
Callers == Users \cup {Absent}
CommentParams == WireIds(DocIds) \cup {MalformedDoc}

\* Date.now() when the document is created: not before the timestamps stored
Now(rows) == {now \in Times : \A c \in rows : c.createdAt <= now}

addCommentOutcomes(user, vw, content) ==
    IF ~isValidObjectId(vw) THEN {Outcome(400, comments)}
    ELSE IF user = Absent THEN {Outcome(401, comments)}
    ELSE IF content = "" THEN {Outcome(400, comments)}
    ELSE {Outcome(200, comments \cup {[_id |-> nextId, owner |-> user,
                                       video |-> ObjectId(vw),
                                       content |-> content,
                                       createdAt |-> now]}) :
            now \in Now(comments)}

addComment(user, vw, content) ==
    \E out \in addCommentOutcomes(user, vw, content) :
        /\ nextId <= MaxDocs
        /\ comments' = out.rows
        /\ nextId' = IF out.status = 200 THEN nextId + 1 ELSE nextId
        /\ resp' = Response2("addComment", user, vw, content, out.status)
        /\ before' = comments
        /\ UNCHANGED <<likes, subs, reqs, run, tweets, videos, playlists, listed, users, app>>

\* Comment.findOneAndUpdate / findOneAndDelete({ _id, owner })
findOneOwned(rows, oid, user) == {c \in rows : c._id = oid /\ c.owner = user}

updateCommentOutcome(user, cw, content) ==
    IF ~isValidObjectId(cw) THEN Outcome(400, comments)
    ELSE IF user = Absent THEN Outcome(401, comments)
    ELSE IF content = "" THEN Outcome(400, comments)
    ELSE LET found == findOneOwned(comments, ObjectId(cw), user)
         IN  IF found = {} THEN Outcome(500, comments)
             ELSE Outcome(200, {IF c \in found
                                THEN [c EXCEPT !.content = content]
                                ELSE c : c \in comments})

updateComment(user, cw, content) ==
    LET out == updateCommentOutcome(user, cw, content)
    IN  /\ comments' = out.rows
        /\ resp' = Response2("updateComment", user, cw, content, out.status)
        /\ before' = comments
        /\ UNCHANGED <<toggleVars, tweets, videos, playlists, listed, users, app>>

deleteCommentOutcome(user, cw) ==
    IF ~isValidObjectId(cw) THEN Outcome(400, comments)
    ELSE IF user = Absent THEN Outcome(401, comments)
    ELSE LET found == findOneOwned(comments, ObjectId(cw), user)
         IN  IF found = {} THEN Outcome(500, comments)
             ELSE Outcome(200, comments \ found)

deleteComment(user, cw) ==
    LET out == deleteCommentOutcome(user, cw)
    IN  /\ comments' = out.rows
        /\ resp' = Response("deleteComment", user, cw, out.status)
        /\ before' = comments
        /\ UNCHANGED <<toggleVars, tweets, videos, playlists, listed, users, app>>

NextComment ==
    \/ \E u \in Callers, vw \in WireIds(VideoIds) \cup {Malformed},
          c \in Contents : addComment(u, vw, c)
    \/ \E u \in Callers, cw \in CommentParams, c \in Contents :
          updateComment(u, cw, c)
    \/ \E u \in Callers, cw \in CommentParams : deleteComment(u, cw)

SpecComment == Init /\ [][NextComment]_vars

(***************************************************************************)
(* Likes and comments on a video together with the deletion of the video.  *)
(***************************************************************************)
InitRefs ==
    /\ InitToggle
    /\ tweets = {} /\ playlists = {} /\ comments = {}
    /\ videos \in {{}} \cup {{VideoDoc(id, "u1")} : id \in VideoIds}
    /\ before = videos
    /\ listed = NoList
    /\ app = NoRoute
    /\ users = {}

NextRefs ==
    \/ \E r \in Req, u \in Users, w \in WireIds(VideoIds) \cup {Malformed} :
          toggleVideoLike(r, u, w)
    \/ \E r \in Req : LikeFindOne(r)
    \/ \E r \in Req : LikeWrite(r)
    \/ \E u \in Users, vw \in WireIds(VideoIds) \cup {Malformed} :
          addComment(u, vw, "a")
    \/ \E u \in Users, w \in WireIds(VideoIds) \cup {Malformed} :
          deleteVideo(u, w)

SpecRefs == InitRefs /\ [][NextRefs]_vars

(***************************************************************************)
(* The paginated listings.  A query parameter arrives as a string or not   *)
(* at all; the handlers read page and limit with a default and convert     *)
(* them with the arithmetic of `page - 1` and with parseInt.               *)
(***************************************************************************)
\* documents in a collection that is listed
MaxListed == 3
\* the largest page and limit a request asks for
MaxPage == 2
MaxLimit == 2

DefaultPage == 1
DefaultLimit == 10

NotSent == [text |-> "absent", num |-> 0]
Digits(n) == [text |-> "digits", num |-> n]
PageValues == {NotSent} \cup {Digits(n) : n \in 1..MaxPage}
LimitValues == {NotSent} \cup {Digits(n) : n \in 1..MaxLimit}

\* const { page = 1, limit = 10 } = req.query
OrDefault(q, default) == IF q = NotSent THEN Digits(default) ELSE q
\* Number(string) and parseInt(string): the number the digits spell; any
\* other text gives NaN
IsNaN(q) == q.text # "digits"
parseInt(q) == q.num

Min(a, b) == IF a < b THEN a ELSE b

\* { $skip: (page - 1) * parseInt(limit) }, { $limit: parseInt(limit) } applied
\* to the documents in the order the earlier stages deliver them; the store
\* refuses a skip that is negative or a limit that is not positive, and NaN
Stages(page, limit) ==
    LET p == OrDefault(page, DefaultPage)
        l == OrDefault(limit, DefaultLimit)
    IN  [sent |-> TRUE,
         skip |-> IF IsNaN(p) \/ IsNaN(l) THEN NaN
                  ELSE Number((parseInt(p) - 1) * parseInt(l)),
         limit |-> IF IsNaN(l) THEN NaN ELSE Number(parseInt(l))]

Paginate(docs, page, limit) ==
    LET stages == Stages(page, limit)
        skip == stages.skip.num
    IN  IF stages.skip.nan \/ stages.limit.nan \/ skip < 0
           \/ stages.limit.num <= 0
        THEN [status |-> 500, items |-> <<>>, stages |-> stages]
        ELSE LET items == SubSeq(docs, skip + 1,
                                 Min(skip + stages.limit.num, Len(docs)))
             IN  [status |-> IF items = <<>> THEN 404 ELSE 200,
                  items |-> items, stages |-> stages]

\* the orders in which a pipeline without $sort may deliver the documents:
\* the store promises none
NaturalOrders(rows) == Arrays({d._id : d \in rows})

getVideoCommentsOutcomes(vw, page, limit) ==
    IF ~isValidObjectId(vw) THEN {Unlisted(400)}
    ELSE {Paginate(docs, page, limit) :
            docs \in NaturalOrders({c \in comments : c.video = ObjectId(vw)})}

getVideoComments(vw, page, limit) ==
    \E out \in getVideoCommentsOutcomes(vw, page, limit) :
        /\ resp' = Response("getVideoComments", Absent, vw, out.status)
        /\ listed' = Listing([op |-> "getVideoComments", video |-> vw,
                              page |-> page, limit |-> limit], out)
        /\ before' = comments
        /\ UNCHANGED <<toggleVars, docVars, users, app>>

\* { title: { $regex: query, $options: "i" } } over one-letter titles
regex(title, query) == title = query

\* the value $sort compares: $project keeps title and drops createdAt, so
\* every document has the same (missing) createdAt
SortKey(d, sortBy) == IF sortBy = "title" THEN d.title ELSE Absent

\* the order of the letters the titles are made of
Rank(key) == CASE key = "a" -> 1 [] key = "b" -> 2 [] OTHER -> 0

\* { $sort: { [sortBy]: sortType === "desc" ? -1 : 1 } }: documents with equal
\* keys come in an order the store does not promise
Sorted(rows, sortBy, sortType) ==
    {docs \in Arrays(rows) :
        \A i, j \in 1..Len(docs) :
            i < j => IF sortType = "desc"
                     THEN Rank(SortKey(docs[i], sortBy)) >=
                          Rank(SortKey(docs[j], sortBy))
                     ELSE Rank(SortKey(docs[i], sortBy)) <=
                          Rank(SortKey(docs[j], sortBy))}

\* mongoose.Types.ObjectId(userId) is called without `new`: the builds in
\* which ObjectId is a class throw a TypeError, the older ones cast
OwnerFilters(uw) ==
    IF uw = NotSent THEN {"any"}
    ELSE IF ~isValidObjectId(uw.id) THEN {"throws"}
    ELSE {"throws", "owner"}

UserId(w) == [text |-> "id", num |-> 0, id |-> w]

getAllVideosOutcomes(user, query, sortBy, sortType, uw, page, limit) ==
    IF user = Absent THEN {Unlisted(401)}
    ELSE UNION {
        IF f = "throws" THEN {Unlisted(500)}
        ELSE LET match == {v \in videos :
                             /\ query # "" => regex(v.title, query)
                             /\ f = "owner" => v.owner = ObjectId(uw.id)}
             IN  {Paginate([i \in 1..Len(docs) |-> docs[i]._id], page, limit) :
                    docs \in Sorted(match, sortBy, sortType)} :
        f \in OwnerFilters(uw)}

getAllVideos(user, query, sortBy, sortType, uw, page, limit) ==
    \E out \in getAllVideosOutcomes(user, query, sortBy, sortType, uw,
                                    page, limit) :
        /\ resp' = Response("getAllVideos", user, Malformed, out.status)
        /\ listed' = Listing([op |-> "getAllVideos", query |-> query,
                              sortBy |-> sortBy, sortType |-> sortType,
                              userId |-> uw, page |-> page, limit |-> limit],
                             out)
        /\ before' = videos
        /\ UNCHANGED <<toggleVars, docVars, users, app>>

ListedIds == 1..MaxListed
ListedVideos == {"v1", "v2"}

\* the collections a listing may find: each _id absent or a document
CommentStores ==
    {{[_id |-> id, owner |-> "u1", video |-> f[id][1], content |-> "a",
       createdAt |-> f[id][2]] : id \in {i \in ListedIds : f[i][1] # Absent}} :
        f \in [ListedIds -> ((ListedVideos \cup {Absent}) \X Times)]}

ListedVideoStores ==
    {{[VideoDoc(id, "u1") EXCEPT !.title = f[id]] :
        id \in {i \in ListedIds : f[i] # Absent}} :
        f \in [ListedIds -> Titles \cup {Absent}]}

InitList ==
    /\ InitRequests
    /\ nextId = MaxListed + 1
    /\ tweets = {} /\ playlists = {}
    /\ \/ comments \in CommentStores /\ videos = {}
       \/ comments = {} /\ videos \in ListedVideoStores
    /\ before = {}
    /\ listed = NoList
    /\ app = NoRoute
    /\ users = {}

\* the sortBy and sortType a request sends; the first pair is the default
SortParams == {<<"createdAt", "desc">>, <<"title", "asc">>}

NextList ==
    \/ \E vw \in WireIds(ListedVideos) \cup {Malformed},
          page \in PageValues, limit \in LimitValues :
            getVideoComments(vw, page, limit)
    \/ \E query \in {"", "a"}, sort \in SortParams,
          uw \in {NotSent, UserId(toString("u1"))},
          page \in PageValues, limit \in LimitValues :
            getAllVideos("u1", query, sort[1], sort[2], uw, page, limit)
    \/ getAllVideos(Absent, "", "createdAt", "desc", NotSent, NotSent, NotSent)

SpecList == InitList /\ [][NextList]_vars

(***************************************************************************)
(* The listings again, asked for with every kind of page and limit a       *)
(* query string can carry, over the comments of one video.                 *)
(***************************************************************************)
Letters == [text |-> "letters", num |-> 0]
QueryValues == PageValues \cup LimitValues \cup {Digits(0), Digits(-1), Letters}

InitQuery ==
    /\ InitRequests
    /\ nextId = MaxListed + 1
    /\ tweets = {} /\ playlists = {} /\ videos = {}
    /\ comments \in {store \in CommentStores : \A c \in store : c.video = "v1"}
    /\ before = {}
    /\ listed = NoList
    /\ app = NoRoute
    /\ users = {}

NextQuery ==
    \/ \E page \in QueryValues, limit \in QueryValues :
            getVideoComments(toString("v1"), page, limit)
    \/ \E page \in QueryValues, limit \in QueryValues :
            getAllVideos("u1", "", "createdAt", "desc", NotSent, page, limit)
    \/ \E vw \in {Malformed, toString("v1")} :
            getVideoComments(vw, NotSent, NotSent)
    \/ \E uw \in {UserId(Malformed), UserId(toString("u1"))} :
            getAllVideos("u1", "", "createdAt", "desc", uw, NotSent, NotSent)

SpecQuery == InitQuery /\ [][NextQuery]_vars

(***************************************************************************)
(* The dashboard: getChannelStats over the collections as it finds them.   *)
(***************************************************************************)
\* the largest view count of a video
MaxViews == 1

StatVideo(id, owner, views) ==
    [_id |-> id, owner |-> owner, title |-> "a", description |-> "a",
     thumbnail |-> "a", isPublished |-> TRUE, views |-> views]

\* the documents the Model.find({ owner }).distinct("_id") of a count selects
distinctIds(rows, user) == {d._id : d \in {r \in rows : r.owner = user}}

\* Model.countDocuments(filter) over the rows the filter selects
countDocuments(matching) == Cardinality(matching)

RECURSIVE sum(_)
sum(rows) ==
    IF rows = {} THEN 0
    ELSE LET r == CHOOSE x \in rows : TRUE
         IN  r.views + sum(rows \ {r})

\* [{ $match: { owner } }, { $group: { _id: null, totalViews: { $sum } } }]:
\* one group when a document matches, and no group otherwise
groupViews(rows, user) ==
    LET match == {v \in rows : v.owner = user}
    IN  IF match = {} THEN <<>> ELSE <<[totalViews |-> sum(match)]>>

\* totalViews[0]?.totalViews || 0
totalViewsOrZero(groups) ==
    IF groups = <<>> THEN 0 ELSE groups[1].totalViews

\* the video likes counted without looking at the owner of the video
videoLikesOfAnyOwner(user) ==
    countDocuments({l \in likes : l.video \in {v._id : v \in videos}})

totalVideoLikes(user) ==
    countDocuments({l \in likes : l.video \in distinctIds(videos, user)})

ChannelStats(user) ==
    [totalVideos |-> countDocuments({v \in videos : v.owner = user}),
     totalSubscribers |-> countDocuments({b \in subs : b.channel = user}),
     totalVideoLikes |-> totalVideoLikes(user),
     totalTweetLikes |->
         countDocuments({l \in likes : l.tweet \in distinctIds(tweets, user)}),
     totalCommentLikes |->
         countDocuments({l \in likes :
                           l.comment \in distinctIds(comments, user)}),
     totalViews |-> totalViewsOrZero(groupViews(videos, user))]

\* the handler if it read totalViews[0].totalViews without `?.`: a TypeError
\* when no video matches
getChannelStatsThrowing(user) ==
    IF groupViews(videos, user) = <<>> THEN [status |-> 500, data |-> Absent]
    ELSE [status |-> 200, data |-> ChannelStats(user)]

getChannelStatsOutcome(user) ==
    [status |-> 200, data |-> ChannelStats(user)]

getChannelStats(user) ==
    /\ resp' = Response2("getChannelStats", user, Malformed,
                         getChannelStatsOutcome(user).data,
                         getChannelStatsOutcome(user).status)
    /\ UNCHANGED <<toggleVars, docVars, before, listed, users, app>>

StatVideoIds == {"v1", "v2"}
StatOwners == {<<Absent, 0>>} \cup {<<"u1", n>> : n \in 0..MaxViews}
                 \cup {<<"u2", MaxViews>>}

StatVideoStores ==
    {{StatVideo(id, f[id][1], f[id][2]) :
        id \in {i \in StatVideoIds : f[i][1] # Absent}} :
        f \in [StatVideoIds -> StatOwners]}

StatLikeStores ==
    SUBSET {LikeRow(1, "u1", "video", "v1"), LikeRow(2, "u2", "video", "v2"),
            LikeRow(3, "u2", "tweet", "t1"), LikeRow(4, "u2", "comment", "c1")}

\* the second row is the duplicate two concurrent toggles leave
StatSubscriptionStores ==
    SUBSET {[_id |-> 5, subscriber |-> "u2", channel |-> "u1"],
            [_id |-> 6, subscriber |-> "u2", channel |-> "u1"]}

InitStats ==
    /\ likes \in StatLikeStores
    /\ subs \in StatSubscriptionStores
    /\ nextId = 7
    /\ reqs = [r \in Req |-> Idle]
    /\ run = <<>>
    /\ resp = NoResponse
    /\ videos \in StatVideoStores
    /\ tweets \in SUBSET {[_id |-> "t1", owner |-> "u1", content |-> "a"]}
    /\ comments \in SUBSET {[_id |-> "c1", owner |-> "u1", video |-> "v1",
                            content |-> "a", createdAt |-> 1]}
    /\ playlists = {}
    /\ before = {}
    /\ listed = NoList
    /\ app = NoRoute
    /\ users = {}

NextStats ==
    \/ \E u \in Users : getChannelStats(u)
    \/ \E u \in Users, v \in StatVideoIds : deleteVideo(u, toString(v))
    \/ \E u \in Users, t \in TweetIds : deleteTweet(u, toString(t))

SpecStats == InitStats /\ [][NextStats]_vars

(***************************************************************************)
(* The User model: schema validation, the pre-save hook, the password and  *)
(* token methods.  A stored password is text in one of three forms: the    *)
(* plaintext, its bcrypt digest, or what is left of an unresolved Promise. *)
(***************************************************************************)
Passwords == {"p", "q"}
Plain(text) == [form |-> "plain", of |-> text]
NoPassword == Plain(Absent)

\* bcrypt.hash(password, 10), awaited: the digest of the text
hash(password) == [form |-> "digest", of |-> password.of]

\* bcrypt.compare(password, this.password): digests match digests only
compare(text, stored) == stored.form = "digest" /\ stored.of = text

\* userSchema: the paths marked required
Validates(doc) ==
    /\ doc.username # Absent /\ doc.username # ""
    /\ doc.email # Absent /\ doc.email # ""
    /\ doc.fullname # Absent /\ doc.fullname # ""
    /\ doc.avatar # Absent /\ doc.avatar # ""
    /\ doc.password # NoPassword /\ doc.password # Plain("")

\* userSchema.pre("save", function async (next) {...}): a plain function named
\* async.  bcrypt.hash() is not awaited, so the hook assigns a Promise to the
\* String path password: the cast fails and the document keeps the plaintext,
\* or the path takes the text of the Promise object.
preSave(doc, isModified) ==
    IF ~isModified THEN {doc}
    ELSE {doc, [doc EXCEPT !.password = [form |-> "promise", of |-> Absent]]}

\* the methods end in jwt.sign(..., { expiresIn: ACCESS_TOKEN_EXPIRY }) with a
\* name that is declared nowhere: evaluating the argument throws a
\* ReferenceError (and there is no return statement)
generateAccessToken(user) == "ReferenceError"
generateRefreshToken(user) == "ReferenceError"

(***************************************************************************)
(* The user handlers, each as one step.                                    *)
(***************************************************************************)
UserNames == {Absent, "", "u1", "u3"}
Emails == {"", "e1", "e3"}
FullNames == {Absent, "f"}
Tokens == {Absent, "forged", "rt-u1", "rt-u2"}

EmailOf(id) == IF id = "u1" THEN "e1" ELSE "e2"
TokenOf(id) == IF id = "u1" THEN "rt-u1" ELSE "rt-u2"

\* jwt.verify(token, secret): the _id the token was signed for, or it throws
verify(token) ==
    CASE token = "rt-u1" -> "u1" [] token = "rt-u2" -> "u2" [] OTHER -> Absent

\* String.prototype.toLowerCase over the names used here
toLowerCase(text) ==
    CASE text = "U1" -> "u1" [] text = "E1" -> "e1" [] OTHER -> text

\* field?.trim() === "" : true of blank text, false of a missing field
trimsToEmpty(field) == field = ""

\* User.findOne({ $or: [{ username }, { email }] }): the rows either branch
\* matches; what a branch with an undefined value matches differs between
\* versions of the driver (nothing, or every row)
\* the filter as the lookup would be if the values went to the store as given
findOneOrAsGiven(username, email) ==
    {{u \in users : u.username = username \/ u.email = email}}

\* The values of the filter are cast through the paths of the schema, whose
\* setters (lowercase: true) apply to them as they do to stored values.
findOneOr(username, email) ==
    LET exact == {u \in users : \/ u.username = toLowerCase(username)
                                \/ u.email = toLowerCase(email)}
    IN  IF username = Absent \/ email = Absent THEN {exact, users}
        ELSE {exact}

\* User.create(doc): validation, then the pre-save hook, then the insert
create(doc) ==
    IF ~Validates(doc) THEN {Outcome(500, users)}
    \* unique: true on username and email: the insert is refused (E11000)
    ELSE IF \E u \in users : u.username = doc.username \/ u.email = doc.email
    THEN {Outcome(500, users)}
    ELSE {Outcome(201, users \cup {[_id |-> nextId] @@ saved}) :
            saved \in preSave(doc, TRUE)}

\* registerUser from the answer of its lookup on: the conflict, the avatar,
\* the upload, and User.create
registerUserAfterLookup(body, avatar, uploaded, existedUser) ==
    IF existedUser # {} THEN {Outcome(409, users)}
    ELSE IF avatar = "none" THEN {Outcome(400, users)}
    ELSE IF ~uploaded THEN {Outcome(400, users)}
    ELSE IF body.username = Absent THEN {Outcome(500, users)}
    ELSE create([username |-> toLowerCase(body.username),
                 email |-> toLowerCase(body.email),
                 \* the handler passes fullName, a path the schema does
                 \* not have: the value is dropped
                 fullname |-> Absent,
                 avatar |-> avatar,
                 password |-> Plain(body.password),
                 refreshToken |-> Absent])

\* [fullname, username, email, password].some(field => field?.trim() === "")
AnyBlank(body) ==
    \E f \in {body.fullname, body.username, body.email, body.password} :
        trimsToEmpty(f)

\* the handler if it wrote the row before it looked at the fields
registerUserWriteFirst(body, avatar, uploaded) ==
    {Outcome(400, users \cup {[_id |-> nextId, username |-> body.username,
                               email |-> body.email,
                               fullname |-> body.fullname, avatar |-> avatar,
                               password |-> Plain(body.password),
                               refreshToken |-> Absent]})}

registerUserOutcomes(body, avatar, uploaded) ==
    IF AnyBlank(body) THEN {Outcome(400, users)}
    ELSE UNION {registerUserAfterLookup(body, avatar, uploaded, existedUser) :
                  existedUser \in findOneOr(body.username, body.email)}

registerUser(body, avatar, uploaded) ==
    \E out \in registerUserOutcomes(body, avatar, uploaded) :
        /\ users' = out.rows
        /\ nextId' = IF out.status = 201 THEN nextId + 1 ELSE nextId
        \* res.status(201).json(new ApiResponse(200, createdUser, ...))
        /\ resp' = Enveloped(Response2("registerUser", Absent, Malformed, body,
                                       out.status),
                             IF out.status = 201 THEN 200 ELSE out.status)
        /\ before' = users
        /\ UNCHANGED <<likes, subs, reqs, run, docVars, listed, app>>

\* generateAccessandRefreshTokens(userId): both tokens are made before the
\* save, so a throw of either leaves the row alone; the catch turns every
\* failure into ApiError(500)
generateAccessandRefreshTokens(userId) ==
    LET user == findById(users, userId)
    IN  IF user = {} \/ \E u \in user : generateAccessToken(u) = "ReferenceError"
                                        \/ generateRefreshToken(u) = "ReferenceError"
        THEN Outcome(500, users)
        ELSE Outcome(0, {IF u \in user
                         THEN [u EXCEPT !.refreshToken = generateRefreshToken(u)]
                         ELSE u : u \in users})

\* the handler if its save ran the hook's assignment on the stored password
loginUserRehashing(body) ==
    {Outcome(200, {[u EXCEPT !.password = [form |-> "promise", of |-> Absent]] :
                     u \in users})}

loginUserOutcomes(body) ==
    IF body.username \in {Absent, ""} /\ body.email \in {Absent, ""}
    THEN {Outcome(400, users)}
    ELSE UNION {
        IF found = {} THEN {Outcome(404, users)}
        ELSE {IF body.password = Absent THEN Outcome(500, users)
              ELSE IF ~compare(body.password, user.password)
              THEN Outcome(401, users)
              ELSE LET tokens == generateAccessandRefreshTokens(user._id)
                   IN  IF tokens.status = 500 THEN tokens
                       ELSE Outcome(200, tokens.rows) :
              user \in found} :
        found \in findOneOr(body.username, body.email)}

loginUser(body) ==
    \E out \in loginUserOutcomes(body) :
        /\ users' = out.rows
        /\ resp' = Response2("loginUser", Absent, Malformed, body, out.status)
        /\ before' = users
        /\ UNCHANGED <<toggleVars, docVars, listed, app>>

\* every failure inside the try block, the ReferenceError of the response
\* (it names refreshToken, which is not declared) included, ends in 401
refreshAccessTokenOutcome(token) ==
    IF token = Absent THEN Outcome(401, users)
    ELSE IF verify(token) = Absent THEN Outcome(401, users)
    ELSE LET user == findById(users, verify(token))
         IN  IF user = {} THEN Outcome(401, users)
             ELSE IF \E u \in user : u.refreshToken # token
             THEN Outcome(401, users)
             ELSE Outcome(401, generateAccessandRefreshTokens(verify(token)).rows)

refreshAccessToken(token) ==
    LET out == refreshAccessTokenOutcome(token)
    IN  /\ users' = out.rows
        /\ resp' = Response2("refreshAccessToken", Absent, Malformed, token,
                             out.status)
        /\ before' = users
        /\ UNCHANGED <<toggleVars, docVars, listed, app>>

\* const user = User.findById(...) is not awaited: user is a Query, and
\* user.isPasswordCorrect is not a function
changeCurrentPasswordOutcome(user, oldPassword, newPassword) ==
    Outcome(500, users)

changeCurrentPassword(user, oldPassword, newPassword) ==
    LET out == changeCurrentPasswordOutcome(user, oldPassword, newPassword)
    IN  /\ users' = out.rows
        /\ resp' = Response2("changeCurrentPassword", user, Malformed,
                             [oldPassword |-> oldPassword,
                              newPassword |-> newPassword], out.status)
        /\ before' = users
        /\ UNCHANGED <<toggleVars, docVars, listed, app>>

\* User.findByIdAndUpdate(req.user._id, { $set: { refreshToken: undefined } }):
\* a key whose value is undefined is either dropped from the update, which
\* then sets nothing, or sent as null, depending on the version of the
\* library that casts the update
logOutUserOutcomes(user) ==
    {users,
     {IF u._id = user THEN [u EXCEPT !.refreshToken = Absent] ELSE u :
        u \in users}}

logOutUser(user) ==
    /\ \E rows \in logOutUserOutcomes(user) : users' = rows
    /\ resp' = Response("logOutUser", user, Malformed, 200)
    /\ before' = users
    /\ UNCHANGED <<toggleVars, docVars, listed, app>>

\* what a handler sends: the HTTP status and the statusCode of the envelope
Sent(status, statusCode) == [status |-> status, envelope |-> statusCode]

\* updateAccountDetails: the Query of findByIdAndUpdate is neither awaited nor
\* executed, so nothing is written; it is the data of the envelope, and
\* serialising it either goes through or throws
updateAccountDetailsOutcomes(user, fullName) ==
    IF fullName \in {Absent, ""} THEN {Sent(400, 400)}
    ELSE {Sent(200, 400), Sent(500, 500)}

updateAccountDetails(user, fullName) ==
    /\ \E out \in updateAccountDetailsOutcomes(user, fullName) :
        resp' = Enveloped(Response2("updateAccountDetails", user, Malformed,
                                    fullName, out.status), out.envelope)
    /\ before' = users
    /\ UNCHANGED <<toggleVars, docVars, listed, users, app>>

\* updateUserAvatar: the upload gives null or an object with a url; the
\* Query of findByIdAndUpdate is dropped unexecuted
updateUserAvatarOutcomes(user, file, uploaded) ==
    IF file = "none" THEN {Sent(400, 400)}
    ELSE IF ~uploaded THEN {Sent(500, 500)}
    ELSE {Sent(200, 400)}

updateUserAvatar(user, file, uploaded) ==
    /\ \E out \in updateUserAvatarOutcomes(user, file, uploaded) :
        resp' = Enveloped(Response2("updateUserAvatar", user, Malformed,
                                    [file |-> file, uploaded |-> uploaded],
                                    out.status), out.envelope)
    /\ before' = users
    /\ UNCHANGED <<toggleVars, docVars, listed, users, app>>

\* updateUserCoverImage: as updateUserAvatar, with the Query as the data
updateUserCoverImageOutcomes(user, file, uploaded) ==
    IF file = "none" THEN {Sent(400, 400)}
    ELSE IF ~uploaded THEN {Sent(500, 500)}
    ELSE {Sent(200, 400), Sent(500, 500)}

updateUserCoverImage(user, file, uploaded) ==
    /\ \E out \in updateUserCoverImageOutcomes(user, file, uploaded) :
        resp' = Enveloped(Response2("updateUserCoverImage", user, Malformed,
                                    [file |-> file, uploaded |-> uploaded],
                                    out.status), out.envelope)
    /\ before' = users
    /\ UNCHANGED <<toggleVars, docVars, listed, users, app>>

\* the User collections a run may start from: rows stored with the digest of
\* their password, with or without a refresh token
UserRows(id) ==
    {[_id |-> id, username |-> id, email |-> EmailOf(id), fullname |-> "f",
      avatar |-> "a", password |-> hash(Plain(pw)), refreshToken |-> token] :
        pw \in Passwords, token \in {Absent, TokenOf(id)}}

UserStores ==
    {UNION {f[id] : id \in Users} :
        f \in [Users -> {{}} \cup {{row} : row \in UserRows("u1") \cup UserRows("u2")}]}

InitUser ==
    /\ InitToggle
    /\ tweets = {} /\ videos = {} /\ playlists = {} /\ comments = {}
    /\ before = {}
    /\ listed = NoList
    /\ app = NoRoute
    /\ users \in {store \in UserStores :
                    \A a, b \in store : a._id = b._id => a = b}

RegisterBodies ==
    [username : UserNames, email : Emails, fullname : FullNames,
     password : {Absent, "", "p"}]
LoginBodies ==
    [username : {Absent, "u1"}, email : {Absent, "e1", "e2"},
     password : {Absent, "p", "q"}]

NextUser ==
    \/ \E body \in RegisterBodies, avatar \in {"none", "file"},
          uploaded \in BOOLEAN : registerUser(body, avatar, uploaded)
    \/ \E body \in LoginBodies : loginUser(body)
    \/ \E token \in Tokens : refreshAccessToken(token)
    \/ \E u \in Users, old \in Passwords, new \in Passwords :
          changeCurrentPassword(u, old, new)
    \/ \E u \in Users : logOutUser(u)
    \/ \E u \in Users, fullName \in FullNames : updateAccountDetails(u, fullName)
    \/ \E u \in Users, file \in {"none", "path"}, uploaded \in BOOLEAN :
          updateUserAvatar(u, file, uploaded)
    \/ \E u \in Users, file \in {"none", "path"}, uploaded \in BOOLEAN :
          updateUserCoverImage(u, file, uploaded)

SpecUser == InitUser /\ [][NextUser]_vars

(***************************************************************************)
(* registerUser with its awaits as separate steps, so that the lookups and *)
(* the inserts of concurrent registrations interleave.                     *)
(***************************************************************************)
NoBody == [username |-> Absent, email |-> Absent, fullname |-> Absent,
           password |-> Absent]
NotRegistering == [pc |-> "idle", body |-> NoBody, existedUser |-> {}]

\* the bodies sent: names and addresses that are stored, that differ from a
\* stored one in letter case only, and that are new
RegisterRequests ==
    [username : {"u1", "U1", "u3"}, email : {"e1", "E1", "e3"},
     fullname : {"f"}, password : {"", "p"}]

\* up to the first await: the check of the fields, then the lookup is issued
registerUserStart(r, body) ==
    /\ reqs[r].pc = "idle"
    /\ IF AnyBlank(body)
       THEN /\ resp' = Response2("registerUser", Absent, Malformed, body, 400)
            /\ before' = users
            /\ UNCHANGED reqs
       ELSE /\ reqs' = [reqs EXCEPT ![r] = [pc |-> "findOne", body |-> body,
                                            existedUser |-> {}]]
            /\ UNCHANGED <<resp, before>>
    /\ UNCHANGED <<likes, subs, nextId, run, docVars, listed, users, app>>

\* const existedUser = await User.findOne({ $or: [{username}, {email}] })
registerUserFindOne(r) ==
    /\ reqs[r].pc = "findOne"
    /\ \E existedUser \in findOneOr(reqs[r].body.username, reqs[r].body.email) :
        reqs' = [reqs EXCEPT ![r] = [@ EXCEPT !.pc = "create",
                                              !.existedUser = existedUser]]
    /\ UNCHANGED <<likes, subs, nextId, run, resp, docVars, before, listed,
                   users, app>>

\* from the answer of the lookup to the response
registerUserFinish(r, avatar, uploaded) ==
    /\ reqs[r].pc = "create"
    /\ \E out \in registerUserAfterLookup(reqs[r].body, avatar, uploaded,
                                          reqs[r].existedUser) :
        /\ users' = out.rows
        /\ nextId' = IF out.rows = users THEN nextId ELSE nextId + 1
        /\ resp' = Enveloped(Response2("registerUser", Absent, Malformed,
                                       reqs[r].body, out.status),
                             IF out.status = 201 THEN 200 ELSE out.status)
    /\ before' = users
    /\ reqs' = [reqs EXCEPT ![r] = NotRegistering]
    /\ UNCHANGED <<likes, subs, run, docVars, listed, app>>

\* the users stored when the registrations arrive
RegisteredUser(id, name, email) ==
    [_id |-> id, username |-> name, email |-> email, fullname |-> name,
     avatar |-> "a", password |-> hash(Plain("p")), refreshToken |-> Absent]

InitRegister ==
    /\ likes = {} /\ subs = {}
    /\ run = <<>>
    /\ resp = NoResponse
    /\ reqs = [r \in Req |-> NotRegistering]
    /\ tweets = {} /\ videos = {} /\ playlists = {} /\ comments = {}
    /\ before = {}
    /\ listed = NoList
    /\ app = NoRoute
    /\ \E n \in {0, 1, 2} :
        /\ users = {RegisteredUser(i, IF i = 1 THEN "u1" ELSE "u2",
                                   IF i = 1 THEN "e1" ELSE "e2") : i \in 1..n}
        /\ nextId = n + 1

NextRegister ==
    \/ \E r \in Req, body \in RegisterRequests : registerUserStart(r, body)
    \/ \E r \in Req : registerUserFindOne(r)
    \/ \E r \in Req, avatar \in {"none", "file"}, uploaded \in BOOLEAN :
          registerUserFinish(r, avatar, uploaded)

SpecRegister == InitRegister /\ [][NextRegister]_vars

(***************************************************************************)
(* The writes of a user document, as the user model performs them:         *)
(* User.create(doc), and user.save() after an assignment to a path.        *)
(***************************************************************************)
\* user documents one run may create
MaxUsers == 2

\* the documents given to User.create
NewUsers ==
    [username : {"u1", "u2"}, email : {"e1", "e2"}, fullname : {Absent, "f"},
     avatar : {"a"}, password : {NoPassword} \cup {Plain(pw) : pw \in Passwords},
     refreshToken : {Absent}]

\* this.isModified("password")
isModified(row, doc) == doc.password # row.password

\* await user.save({validateBeforeSave:false}): the pre-save hook, then the
\* update of the stored row
save(row, doc) ==
    {(users \ {row}) \cup {saved} : saved \in preSave(doc, isModified(row, doc))}

\* User.create(doc); username and email carry a unique index
createUser(doc) ==
    /\ nextId <= MaxUsers
    /\ \E out \in create(doc) :
        /\ users' = out.rows
        /\ nextId' = IF out.rows = users THEN nextId ELSE nextId + 1
        /\ resp' = Response2("create", Absent, Malformed, doc, out.status)
    /\ before' = users
    /\ UNCHANGED <<likes, subs, reqs, run, docVars, listed, app>>

\* user.password = newPassword; await user.save({validateBeforeSave:false})
savePassword(row, newPassword) ==
    /\ row \in users
    /\ \E rows \in save(row, [row EXCEPT !.password = Plain(newPassword)]) :
        users' = rows
    /\ resp' = Response2("savePassword", row.username, Malformed,
                         [_id |-> row._id, newPassword |-> newPassword], 200)
    /\ before' = users
    /\ UNCHANGED <<toggleVars, docVars, listed, app>>

\* user.refreshToken = refreshToken; await user.save({validateBeforeSave:false})
saveRefreshToken(row, token) ==
    /\ row \in users
    /\ \E rows \in save(row, [row EXCEPT !.refreshToken = token]) :
        users' = rows
    /\ resp' = Response2("saveRefreshToken", row.username, Malformed,
                         [_id |-> row._id, refreshToken |-> token], 200)
    /\ before' = users
    /\ UNCHANGED <<toggleVars, docVars, listed, app>>

InitSave ==
    /\ InitToggle
    /\ tweets = {} /\ videos = {} /\ playlists = {} /\ comments = {}
    /\ before = {}
    /\ listed = NoList
    /\ app = NoRoute
    /\ users = {}

NextSave ==
    \/ \E doc \in NewUsers : createUser(doc)
    \/ \E row \in users, pw \in Passwords : savePassword(row, pw)
    \/ \E row \in users : saveRefreshToken(row, TokenOf(row.username))

SpecSave == InitSave /\ [][NextSave]_vars

(***************************************************************************)
(* asyncHandler, the wrapper every controller passes its handler through.  *)
(***************************************************************************)
\* the handlers the controllers export through asyncHandler
HandlerNames ==
    {"registerUser", "loginUser", "changeCurrentPassword", "createTweet",
     "updateTweet", "deleteVideo", "addComment", "toggleVideoLike",
     "toggleSubscription", "getChannelStats"}

\* the statuses the controllers throw an ApiError with
ErrorStatuses == {400, 401, 403, 404, 409, 500}

\* what a handler does with a request: answers, throws before its first
\* await, or returns a promise that rejects
Handlers ==
    [name : HandlerNames, kind : {"returns"}, status : {200}]
        \cup [name : HandlerNames, kind : {"throws", "rejects"},
              status : ErrorStatuses]

Undefined == [type |-> "undefined", of |-> "none"]
Function(listener) == [type |-> "function", of |-> listener]
typeof(value) == value.type

\* (req,res,next)=>{ Promise.resolve(requestHandler(req,res,next))
\*                       .catch((err)=>next(err)) }
\* how a request given to this function ends: a rejection goes to next(err),
\* a throw before the promise exists leaves the function as an exception
listener(requestHandler) ==
    CASE requestHandler.kind = "returns" -> "responded"
      [] requestHandler.kind = "rejects" -> "next(err)"
      [] OTHER -> "throws"

\* const asyncHandler=(requestHandler)=>{ (req,res,next)=>{...} }
\* the body is a block: the function expression in it is evaluated and
\* dropped, and the call returns undefined
asyncHandler(requestHandler) ==
    LET dropped == Function(listener(requestHandler))
    IN  IF typeof(dropped) = "function" THEN Undefined ELSE dropped

\* const registerUser = asyncHandler(async (req,res) => {...})
wrap ==
    /\ app.handler # NoHandler
    /\ app.wrapped = NotWrapped
    /\ app' = [app EXCEPT !.wrapped = asyncHandler(app.handler)]
    /\ UNCHANGED <<toggleVars, resp, docVars, before, listed, users>>

\* router.route(path).post(handler): the router takes functions only, and
\* its refusal is an exception while the application is being loaded
register ==
    /\ app.wrapped # NotWrapped
    /\ app.ended = "none"
    /\ app' = [app EXCEPT !.ended =
                  IF typeof(app.wrapped) = "function"
                  THEN app.wrapped.of
                  ELSE "startup error"]
    /\ UNCHANGED <<toggleVars, resp, docVars, before, listed, users>>

InitHandler ==
    /\ InitRequests
    /\ nextId = 1
    /\ tweets = {} /\ videos = {} /\ playlists = {} /\ comments = {}
    /\ before = {}
    /\ listed = NoList
    /\ users = {}
    /\ \E h \in Handlers :
        app = [handler |-> h, wrapped |-> NotWrapped, ended |-> "none"]

NextHandler == wrap \/ register

SpecHandler == InitHandler /\ [][NextHandler]_vars

(***************************************************************************)
(* Claims about the toggle handlers.                                       *)
(***************************************************************************)
SamePair(a, b) ==
    /\ a.likedBy = b.likedBy
    /\ a.video = b.video /\ a.comment = b.comment /\ a.tweet = b.tweet

\* C1: whatever the interleaving of concurrent toggle requests, the store
\* never holds two Like rows with the same (likedBy, target) nor two
\* Subscription rows with the same (subscriber, channel).
C1_NoDuplicateRows ==
    /\ \A a, b \in likes : a # b => ~SamePair(a, b)
    /\ \A a, b \in subs :
          a # b => ~(a.subscriber = b.subscriber /\ a.channel = b.channel)

\* the rows of the pair a toggle is about, in a store <<likes, subs>>
PairRows(store, e) ==
    IF e.op = "channel"
    THEN SubMatches(store[2], e.user, e.oid)
    ELSE LikeMatches(store[1], e.op, e.oid, e.user)
OtherRows(store, e) == (store[1] \cup store[2]) \ PairRows(store, e)

\* C2: two toggles of the same (actor, target), run one after the other and
\* each to completion, leave the pair's row existing exactly if it existed
\* before the first, and leave every other row as it was.
C2_TwoTogglesRestore ==
    (/\ Len(run) = 2
     /\ run[1].op = run[2].op
     /\ run[1].user = run[2].user
     /\ run[1].oid = run[2].oid
     /\ run[1].op = "channel" => run[1].user # run[1].oid)
    => /\ (PairRows(run[1].pre, run[1]) = {}) = (PairRows(run[2].post, run[2]) = {})
       /\ OtherRows(run[1].pre, run[1]) = OtherRows(run[2].post, run[2])

\* C3: no Subscription row has subscriber equal to channel: a
\* toggleSubscription whose channelId is the caller's own id is answered
\* with an error and never reaches the store.
C3_NoSelfSubscription ==
    /\ \A s \in subs : s.subscriber # s.channel
    /\ \A r \in Req :
          Busy(r) /\ reqs[r].op = "channel"
              => ObjectId(reqs[r].target) # reqs[r].user
    /\ (/\ resp.op = "channel"
        /\ isValidObjectId(resp.target)
        /\ ObjectId(resp.target) = resp.user) => resp.status >= 400

(***************************************************************************)
(* Claims about ownership.                                                 *)
(***************************************************************************)
\* the request answered last addressed a document that existed and was owned
\* by someone other than the caller
ByNonOwner ==
    /\ isValidObjectId(resp.target)
    /\ \E d \in before : d._id = ObjectId(resp.target) /\ d.owner # resp.user

\* C4: updateTweet or deleteTweet by a user who does not own the tweet is
\* answered 403 and leaves the tweet, content and existence, as it was.
C4_TweetNonOwner ==
    (resp.op \in {"updateTweet", "deleteTweet"} /\ ByNonOwner)
    => resp.status = 403 /\ tweets = before

C4_Witness ==
    /\ resp.op = "updateTweet"
    /\ ByNonOwner
    /\ resp.status = 403
    /\ \E t \in tweets : t._id = ObjectId(resp.target)

\* C5: updateVideo, deleteVideo or togglePublishStatus by a user who does not
\* own the video is answered 403 and leaves the video (title, description,
\* thumbnail, isPublished, existence) as it was.
C5_VideoNonOwner ==
    (resp.op \in {"updateVideo", "deleteVideo", "togglePublishStatus"}
     /\ ByNonOwner)
    => resp.status = 403 /\ videos = before

\* C6: updatePlaylist, deletePlaylist, addVideoToPlaylist or
\* removeVideoFromPlaylist by a user who does not own the playlist is
\* answered 403 and leaves the playlist (name, description, videos,
\* existence) as it was.
C6_PlaylistNonOwner ==
    (resp.op \in {"updatePlaylist", "deletePlaylist", "addVideoToPlaylist",
                  "removeVideoFromPlaylist"}
     /\ ByNonOwner)
    => resp.status = 403 /\ playlists = before

\* the request answered last added a video to a playlist that held it already
AddedAgain ==
    /\ resp.op = "addVideoToPlaylist"
    /\ isValidObjectId(resp.target) /\ isValidObjectId(resp.arg)
    /\ \E p \in before : /\ p._id = ObjectId(resp.target)
                         /\ ObjectId(resp.arg) \in Range(p.videos)

\* C8: a playlist's videos list holds each video id at most once, and adding
\* a video id the list already holds leaves the list as it was and is
\* answered with success.
C8_PlaylistVideosUnique ==
    /\ \A p \in playlists :
          \A i, j \in 1..Len(p.videos) : p.videos[i] = p.videos[j] => i = j
    /\ AddedAgain => resp.status = 200 /\ playlists = before

\* the id of a comment that was never stored
NoSuchComment == toString(MaxDocs + 1)

\* the status the operation answers when the comment does not exist
NotFoundStatus ==
    IF resp.op = "updateComment"
    THEN updateCommentOutcome(resp.user, NoSuchComment, resp.arg).status
    ELSE deleteCommentOutcome(resp.user, NoSuchComment).status

\* C7: updateComment or deleteComment (a logged-in caller, content given) by
\* a user who does not own the comment leaves the comments as they were and
\* is answered 403, which is not the answer given for a comment that does not
\* exist.
C7_CommentNonOwner ==
    (/\ resp.op \in {"updateComment", "deleteComment"}
     /\ resp.user \in Users /\ resp.arg # ""
     /\ ByNonOwner)
    => /\ comments = before
       /\ resp.status = 403
       /\ resp.status # NotFoundStatus

(***************************************************************************)
(* Claims about the paginated listings.                                    *)
(***************************************************************************)
PageOf(params) == parseInt(OrDefault(params.page, DefaultPage))
LimitOf(params) == parseInt(OrDefault(params.limit, DefaultLimit))

\* q asks for the page after the one p asked for, of the same listing with
\* the same filter, sort parameters and limit
NextPageOf(p, q) ==
    /\ p.op \in {"getAllVideos", "getVideoComments"}
    /\ q.op = p.op
    /\ [q EXCEPT !.page = p.page] = p
    /\ PageOf(q) = PageOf(p) + 1

\* C9: getAllVideos and getVideoComments with page >= 1 and limit >= 1 leave
\* the store as it was and return at most limit items, and the items of
\* page p and of page p+1 of the same listing (same filter, same sort
\* parameters, same limit) have no item in common.
C9_PagesDisjoint ==
    [][listed'.params.op \in {"getAllVideos", "getVideoComments"}
       => /\ comments' = comments /\ videos' = videos
          /\ Len(listed'.items) <= LimitOf(listed'.params)
          /\ NextPageOf(listed.params, listed'.params)
             => Range(listed.items) \cap Range(listed'.items) = {}]_vars

\* the comments of a video, oldest first; comments created at the same time
\* in either order
CreationOrders(oid) ==
    LET of == {c \in comments : c.video = oid}
    IN  {[i \in 1..Len(docs) |-> docs[i]._id] :
           docs \in {d \in Arrays(of) :
                       \A i, j \in 1..Len(d) :
                           i < j => d[i].createdAt <= d[j].createdAt}}

\* C10: for a video with N comments getVideoComments(page p, limit L) returns
\* the comments at positions (p-1)*L+1 .. min(p*L, N) of the video's comments
\* in creation-time order (none beyond the last page), so the pages continue
\* one another and hold every comment once.
C10_CommentPageSlice ==
    (listed.params.op = "getVideoComments"
     /\ isValidObjectId(listed.params.video))
    => \E order \in CreationOrders(ObjectId(listed.params.video)) :
         LET p == PageOf(listed.params)
             L == LimitOf(listed.params)
             slice == SubSeq(order, (p - 1) * L + 1, Min(p * L, Len(order)))
         IN  /\ listed.items = slice
             /\ slice # <<>> => resp.status = 200

\* a page or limit that is not the digits of a positive integer
BadValue(q) == q # NotSent /\ (q.text # "digits" \/ q.num < 1)
Repaired(q) == IF BadValue(q) THEN NotSent ELSE q

\* C11: whatever page and limit the client sends, the $skip and $limit a
\* listing hands to the store are integers, skip >= 0 and limit >= 1: a bad
\* value is rejected before any query, or the default (page 1, limit 10)
\* takes its place.
C11_StagesWellFormed ==
    listed.stages.sent
    => /\ ~listed.stages.skip.nan /\ listed.stages.skip.num >= 0
       /\ ~listed.stages.limit.nan /\ listed.stages.limit.num >= 1
       /\ listed.stages = Stages(Repaired(listed.params.page),
                                 Repaired(listed.params.limit))

(***************************************************************************)
(* Claims about the dashboard.                                             *)
(***************************************************************************)
StatsSent == resp.op = "getChannelStats"

\* the caller of the request answered last owns no video, tweet or comment
\* and nobody subscribes to them
OwnsNothing ==
    /\ \A v \in videos : v.owner # resp.user
    /\ \A t \in tweets : t.owner # resp.user
    /\ \A c \in comments : c.owner # resp.user
    /\ \A b \in subs : b.channel # resp.user

\* C12: getChannelStats for a user without videos, tweets, comments and
\* subscribers answers with success and each of the six totals is the
\* number 0.
C12_EmptyChannelZeros ==
    (StatsSent /\ OwnsNothing)
    => /\ resp.status = 200
       /\ resp.arg = [totalVideos |-> 0, totalSubscribers |-> 0,
                      totalVideoLikes |-> 0, totalTweetLikes |-> 0,
                      totalCommentLikes |-> 0, totalViews |-> 0]

C12_Witness ==
    /\ StatsSent /\ OwnsNothing
    /\ resp.arg.totalViews = 0
    /\ likes # {} /\ videos # {}

\* the rows of a collection that exist now and belong to the user
OwnedBy(rows, user) == {d \in rows : d.owner = user}

\* the likes whose target (in the given field) is an existing document of the
\* user
LikesOn(field, rows, user) ==
    {l \in likes : \E d \in OwnedBy(rows, user) : l[field] = d._id}

RECURSIVE ViewsOf(_)
ViewsOf(rows) ==
    IF rows = {} THEN 0
    ELSE LET r == CHOOSE x \in rows : TRUE
         IN  r.views + ViewsOf(rows \ {r})

\* C13: getChannelStats for user U returns the number of U's videos, the sum
\* of their views, the number of subscriptions to U, and per kind of target
\* the number of likes on an existing video / tweet / comment of U.
C13_StatsAreCounts ==
    StatsSent
    => /\ resp.status = 200
       /\ resp.arg.totalVideos = Cardinality(OwnedBy(videos, resp.user))
       /\ resp.arg.totalViews = ViewsOf(OwnedBy(videos, resp.user))
       /\ resp.arg.totalSubscribers =
              Cardinality({b \in subs : b.channel = resp.user})
       /\ resp.arg.totalVideoLikes =
              Cardinality(LikesOn("video", videos, resp.user))
       /\ resp.arg.totalTweetLikes =
              Cardinality(LikesOn("tweet", tweets, resp.user))
       /\ resp.arg.totalCommentLikes =
              Cardinality(LikesOn("comment", comments, resp.user))

\* stats of a user with a video that was viewed, a like on that video, a
\* like on a video that was deleted and two subscriptions
C13_Witness ==
    /\ StatsSent
    /\ resp.arg.totalVideos = 1 /\ resp.arg.totalViews = MaxViews
    /\ resp.arg.totalVideoLikes = 1 /\ resp.arg.totalSubscribers = 2
    /\ \E l \in likes : l.video # Absent /\ \A v \in videos : v._id # l.video

(***************************************************************************)
(* Claims about the error answers of the document handlers.                *)
(***************************************************************************)
TweetWrites == {"updateTweet", "deleteTweet"}
VideoWrites == {"updateVideo", "deleteVideo", "togglePublishStatus"}
CommentWrites == {"updateComment", "deleteComment"}
PlaylistWrites == {"updatePlaylist", "deletePlaylist", "addVideoToPlaylist",
                   "removeVideoFromPlaylist"}

\* the collection the handler of the request answered last works on
UserOps == {"registerUser", "loginUser", "refreshAccessToken",
            "changeCurrentPassword"}

Collection ==
    CASE resp.op \in TweetWrites \cup {"createTweet"} -> tweets
      [] resp.op \in VideoWrites \cup {"getAllVideos"} -> videos
      [] resp.op \in CommentWrites \cup {"addComment", "getVideoComments"}
           -> comments
      [] resp.op \in UserOps -> users
      [] OTHER -> playlists

\* the request answered last carried a well-formed id that no document of the
\* collection had
MatchedNothing ==
    /\ isValidObjectId(resp.target)
    /\ \A d \in before : d._id # ObjectId(resp.target)

\* C14: an update or delete whose well-formed id matches no stored entity
\* (the rest of the request being valid) is answered 404 and leaves the
\* collection as it was.
C14_MissingIsNotFound ==
    (/\ resp.op \in TweetWrites \cup VideoWrites \cup CommentWrites
                    \cup PlaylistWrites
     /\ MatchedNothing
     /\ resp.status # 400 /\ resp.status # 401)
    => resp.status = 404 /\ Collection = before

\* the operations whose request carries the id of an entity as its target
\* (the toggles are named by the kind of their target)
IdOps ==
    TweetWrites \cup VideoWrites \cup CommentWrites \cup PlaylistWrites
    \cup {"addComment", "getVideoComments",
          "video", "comment", "tweet", "channel"}

\* C15: an operation given a malformed entity id (in the path, or the userId
\* filter of getAllVideos) answers 400 and makes no query.
C15_MalformedIdRejected ==
    /\ (resp.op \in IdOps /\ ~isValidObjectId(resp.target))
       => resp.status = 400 /\ ~listed.stages.sent
    /\ (/\ resp.op = "getAllVideos" /\ resp.user # Absent
        /\ listed.params.userId # NotSent
        /\ ~isValidObjectId(listed.params.userId.id))
       => resp.status = 400 /\ ~listed.stages.sent

\* C16: a create or update whose required field is missing or blank is
\* answered 400 and writes nothing (registerUser: fullname, username, email,
\* password; addComment and updateComment: content).
C16_BlankIsRejected ==
    /\ (/\ resp.op = "registerUser"
        /\ \E f \in {"fullname", "username", "email", "password"} :
             resp.arg[f] \in {Absent, ""})
       => resp.status = 400 /\ users = before
    /\ (/\ resp.op \in {"addComment", "updateComment"}
        /\ isValidObjectId(resp.target) /\ resp.user # Absent
        /\ resp.arg = "")
       => resp.status = 400 /\ comments = before

\* C17: a request that ends in an error response leaves every collection
\* holding the rows and the field values it held when the request started.
C17_ErrorWritesNothing ==
    [][(resp'.op # "none" /\ resp'.status >= 400)
       => UNCHANGED <<likes, subs, tweets, videos, playlists, comments,
                      users>>]_vars

\* a registration with all fields given that ends in an error, in a store
\* that holds users
C17_Witness ==
    /\ resp.op = "registerUser" /\ resp.status = 500
    /\ \A f \in {"fullname", "username", "email", "password"} :
         resp.arg[f] \notin {Absent, ""}
    /\ users # {} /\ users = before

\* C18: a wrapped handler that throws, or whose promise rejects, has its
\* failure passed to next(err): the request ends with an error response
\* and the application keeps serving.
C18_FailureReachesNext ==
    (app.ended # "none" /\ app.handler.kind \in {"throws", "rejects"})
        => app.ended = "next(err)"

\* C19: the password of every stored user is the one-way hash of the
\* plaintext that was supplied, never the plaintext or any other value,
\* after a user was created and after a password was changed.
C19_PasswordsAreDigests ==
    \A u \in users : u.password.form = "digest"

\* the rows are the rows of before the step, each with the password it had
SamePasswords ==
    /\ \A u \in users : \E b \in before :
          b._id = u._id /\ b.password = u.password
    /\ \A b \in before : \E u \in users : u._id = b._id

\* C20: loginUser, with a correct or an incorrect password, leaves the
\* stored password of every user as it was; so does the save of a refresh
\* token.
C20_LoginKeepsPasswords ==
    resp.op \in {"loginUser", "saveRefreshToken"} => SamePasswords

\* a login that passed the password check has been answered
C20_Witness ==
    /\ resp.op = "loginUser"
    /\ resp.status = 500
    /\ \E u \in users :
        /\ u.username = resp.arg.username
        /\ resp.arg.password # Absent
        /\ compare(resp.arg.password, u.password)

\* the request carried a title, a description and both files, and the
\* duration of the video file could be read
PublishInputsFine ==
    /\ resp.op = "publishAVideo"
    /\ resp.arg.title # Absent /\ resp.arg.description # Absent
    /\ resp.arg.videoFile = "path" /\ resp.arg.thumbnail = "path"
    /\ resp.arg.duration # "rejects"

\* C21: publishAVideo creates no Video row when the duration read or an
\* upload fails, and with title, description, both files and all upload
\* steps fine it creates exactly one row owned by the caller, with the
\* duration read from the file, and answers 201.
C21_PublishCreatesOne ==
    resp.op = "publishAVideo" =>
        IF PublishInputsFine
        THEN /\ resp.status = 201
             /\ before \subseteq videos
             /\ \E v \in videos \ before :
                  /\ videos \ before = {v}
                  /\ v.owner = resp.user
                  /\ v.duration = resp.arg.duration
        ELSE videos = before

\* the body names a stored user: by username or by email, letter case aside
NamesStoredUser(body, rows) ==
    \E u \in rows : \/ u.username = toLowerCase(body.username)
                    \/ u.email = toLowerCase(body.email)

TargetsOf(like) == {f \in {"video", "comment", "tweet"} : like[f] # Absent}

\* C23: every Like row has a likedBy user and exactly one of the target
\* fields video, comment, tweet set.
C23_OneTargetPerLike ==
    \A l \in likes : l.likedBy \in Users /\ Cardinality(TargetsOf(l)) = 1

\* rows for two kinds of target are stored
C23_Witness ==
    \E a, b \in likes : TargetsOf(a) # TargetsOf(b)

\* the collection a toggle works on
ToggledRows == IF resp.op = "channel" THEN subs ELSE likes

\* C24: a toggle that finds a row deletes it and returns the removed row in
\* its response data; a toggle that finds none creates the row and returns
\* the created row.
C24_ToggleReturnsRow ==
    (resp.op \in {"video", "comment", "tweet", "channel"}
        /\ resp.status \in {200, 201})
      => \E row \in resp.arg :
            /\ resp.arg = {row}
            /\ resp.status = 201 => row \in ToggledRows
            /\ resp.status = 200 => row \notin ToggledRows

\* C25: in every response the statusCode of the envelope equals the HTTP
\* status, so a response of an operation that succeeded carries a
\* statusCode below 400.
C25_EnvelopeMatchesStatus ==
    resp.op # "none" =>
        /\ resp.envelope = resp.status
        /\ resp.status < 400 => resp.envelope < 400

\* C26: changeCurrentPassword changes the caller's password only when
\* oldPassword matches the stored one: with a wrong oldPassword the request
\* ends in an error and the password stays, with a correct one the stored
\* password afterwards verifies against newPassword and no longer against
\* oldPassword.
C26_PasswordChangesOnMatch ==
    resp.op = "changeCurrentPassword" =>
        \A b \in before : b._id = resp.user =>
            IF compare(resp.arg.oldPassword, b.password)
            THEN \E u \in users :
                    /\ u._id = b._id
                    /\ compare(resp.arg.newPassword, u.password)
                    /\ resp.arg.newPassword # resp.arg.oldPassword
                          => ~compare(resp.arg.oldPassword, u.password)
            ELSE resp.status >= 400 /\ users = before

\* the token presented is the one stored on the user it was signed for
PresentsStoredToken(token, rows) ==
    \E b \in rows : verify(token) = b._id /\ b.refreshToken = token

\* C27: refresh tokens are single-use: refreshAccessToken accepts only a
\* token equal to the stored one, stores a new token in its place and
\* answers with it, so that the accepted token is refused (401) afterwards;
\* any other token is refused with 401.
C27_RefreshRotatesToken ==
    resp.op = "refreshAccessToken" =>
        IF PresentsStoredToken(resp.arg, before)
        THEN /\ resp.status = 200
             /\ ~PresentsStoredToken(resp.arg, users)
             /\ \E u \in users : verify(resp.arg) = u._id
                                  /\ u.refreshToken # Absent
        ELSE resp.status = 401 /\ users = before

\* C28: after logOutUser the user's stored refreshToken is absent, and a
\* refreshAccessToken presenting a token that is not stored, as every
\* token issued before the logout then is, is refused with 401.
C28_LogoutClearsToken ==
    /\ resp.op = "logOutUser" =>
          \A u \in users : u._id = resp.user => u.refreshToken = Absent
    /\ resp.op = "refreshAccessToken" =>
          resp.status = 401 \/ PresentsStoredToken(resp.arg, before)

\* C29: after two togglePublishStatus requests on a video have both
\* completed, however their reads and saves interleaved, isPublished of
\* the video is what it was before the two.
C29_TwoTogglesRestorePublished ==
    (Len(run) = 2 /\ run[1] = run[2]
        /\ \A r \in Req : reqs[r].pc = "idle")
      => \A v \in videos : v._id = run[1] =>
            \E b \in before : b._id = v._id /\ b.isPublished = v.isPublished

\* a row of the collection has the identifier
Exists(rows, id) == \E x \in rows : x._id = id

\* C30: every Like row's target, every Comment row's video and every id
\* in a Playlist's videos refers to an entity that exists: nothing is
\* created for an id that matches no entity, and a deletion leaves no row
\* pointing at what was deleted.
C30_ReferencesExist ==
    /\ \A l \in likes :
          /\ l.video # Absent => Exists(videos, l.video)
          /\ l.comment # Absent => Exists(comments, l.comment)
          /\ l.tweet # Absent => Exists(tweets, l.tweet)
    /\ \A c \in comments : Exists(videos, c.video)
    /\ \A p \in playlists : \A id \in Range(p.videos) : Exists(videos, id)

====
